---- MODULE Spec2Model ----
(***************************************************************************)
(* Model of heat/cfntools/cfn_helper.py: the hook registry (HupConfig,     *)
(* Hook), the yum package handler (RpmHelper, PackagesHandler), the file   *)
(* handler (FilesHandler), the service handler (ServicesHandler) and the   *)
(* two entry points of Metadata (cfn_init, cfn_hup).                       *)
(*                                                                         *)
(* Python strings that the code takes apart (hook triggers, hook paths,    *)
(* event names) are sequences of tokens, so that str.split and the         *)
(* substring test `a in b` are computed, not assumed.  Every run of        *)
(* CommandRunner and every file operation is appended to `log`, a command  *)
(* with the exit status it returned; exit statuses and the outcome of      *)
(* os.makedirs are inputs of the environment.                              *)
(*                                                                         *)
(* Spec runs cfn_init, SpecHup runs cfn_hup, SpecAll calls both entry      *)
(* points on one Metadata object, SpecDispatch raises events into the hook *)
(* registry, SpecVersions calls the version helpers of RpmHelper and       *)
(* SpecFlush runs the flush of _handle_yum_packages on queued batches.     *)
(***************************************************************************)
EXTENDS Integers, Sequences, FiniteSets, TLC

VARIABLES
    metadata,    \* Metadata._metadata
    data,        \* Metadata._data: the document retrieve() loaded
    entry,       \* the entry point called last: "cfn_init" or "cfn_hup"
    resource,    \* Metadata.resource
    hooks,       \* HupConfig.hooks: section name -> Hook
    hookOrder,   \* the order in which the dict `hooks` is iterated
    pc,          \* position of the running entry point
    err,         \* the exception that left the entry point, or NoError
    calls,       \* number of entry point calls made on this Metadata object
    log,         \* every command, file operation and Hook.event call of the
                 \* pass; in SpecVersions the calls made and their results
    mgrTodo,     \* managers the enclosing `for manager, ...` has yet to visit
    curMgr,      \* manager whose entries are being iterated
    itemTodo,    \* entries the inner `for` has yet to visit
    installs,    \* _handle_yum_packages: local list `installs`
    downgrades,  \* _handle_yum_packages: local list `downgrades`
    installed    \* the rpm database: package name -> installed version

vars == <<metadata, data, entry, resource, hooks, hookOrder, pc, err, calls,
          log, mgrTodo,
          curMgr, itemTodo, installs, downgrades, installed>>

(***************************************************************************)
(* Bounds                                                                  *)
(***************************************************************************)
MaxHooks == 2
MaxEvents == 2
MaxPkgs == 2
MaxServices == 2
MaxCalls == 2
MaxFiles == 2
MaxKinds == 3
MaxCompares == 2
MaxVersions == 2

(***************************************************************************)
(* Python helpers                                                          *)
(***************************************************************************)
NoError == "none"
Range(s) == {s[i] : i \in 1..Len(s)}

\* Sequences without repetition over a finite set: the orders in which a
\* dict can be iterated.
Orders(S) == {s \in [1..Cardinality(S) -> S] : Range(s) = S}

\* str.split(sep) on a token sequence
RECURSIVE split(_, _)
split(s, sep) ==
    IF \A i \in 1..Len(s) : s[i] # sep
    THEN <<s>>
    ELSE LET i == CHOOSE k \in 1..Len(s) :
                      s[k] = sep /\ \A j \in 1..(k - 1) : s[j] # sep
         IN <<SubSeq(s, 1, i - 1)>> \o split(SubSeq(s, i + 1, Len(s)), sep)

\* `sub in s` for two Python strings: sub occurs as a contiguous run of s
StrContains(sub, s) ==
    \E i \in 0..(Len(s) - Len(sub)) : SubSeq(s, i + 1, i + Len(sub)) = sub

(***************************************************************************)
(* Hook and HupConfig                                                      *)
(***************************************************************************)
Hook(name, triggers, path, runas, action) ==
    [name |-> name, triggers |-> triggers, path |-> path,
     runas |-> runas, action |-> action]

resource_name_get(h) == split(h.path, ".")[2]

\* the sections of a hooks configuration file, `main` included
HupConfig(config) ==
    [s \in (DOMAIN config) \ {"main"} |->
        Hook(s, config[s].triggers, config[s].path,
             config[s].runas, config[s].action)]

\* the condition of Hook.event
EventMatches(h, ev_name, ev_resource) ==
    /\ resource_name_get(h) = ev_resource
    /\ StrContains(ev_name, h.triggers)

\* Hook.event: what one call appends to the log
HookEvent(h, ev_name, ev_object, ev_resource) ==
    <<[op |-> "event", who |-> h.name, name |-> ev_name,
       obj |-> ev_object, res |-> ev_resource]>>
    \o (IF EventMatches(h, ev_name, ev_resource)
        THEN <<[op |-> "action", who |-> h.name, cmd |-> h.action,
                user |-> h.runas]>>
        ELSE << >>)

\* DispatchLoop leaving the loop after the first hook
DispatchLoop_first_only(hs, order, ev_name, ev_object, ev_resource) ==
    IF order = << >>
    THEN << >>
    ELSE HookEvent(hs[Head(order)], ev_name, ev_object, ev_resource)

\* `for h in self.hooks: self.hooks[h].event(...)` in the order `order`
RECURSIVE DispatchLoop(_, _, _, _, _)
DispatchLoop(hs, order, ev_name, ev_object, ev_resource) ==
    IF order = << >>
    THEN << >>
    ELSE HookEvent(hs[Head(order)], ev_name, ev_object, ev_resource)
         \o DispatchLoop(hs, Tail(order), ev_name, ev_object, ev_resource)

(***************************************************************************)
(* JSON values of the metadata document, and to_boolean                    *)
(***************************************************************************)
JBool(b) == [t |-> "bool", b |-> b, s |-> "", i |-> 0]
JStr(s) == [t |-> "str", b |-> FALSE, s |-> s, i |-> 0]
JInt(i) == [t |-> "int", b |-> FALSE, s |-> "", i |-> i]

\* b.lower().strip() on the strings of ValueStrings
lower_strip(s) ==
    CASE s = "True" -> "true"
      [] s = "False" -> "false"
      [] s = " yes " -> "yes"
      [] OTHER -> s

\* to_boolean by Python truthiness: every non-empty string is true
to_boolean_truthy(v) ==
    IF v.t = "str" THEN v.s # ""
    ELSE IF v.t = "bool" THEN v.b
    ELSE v.i # 0

to_boolean(v) ==
    IF v.t = "str" THEN lower_strip(v.s) \in {"true", "yes", "1"}
    ELSE IF v.t = "bool" THEN v.b
    ELSE v.i = 1

\* None and the empty dict are both the empty mapping: the code only tests
\* them with `not x` / `x and ...`
None == << >>
Truthy(d) == DOMAIN d # {}
DictGet(d, k) == IF k \in DOMAIN d THEN d[k] ELSE None

(***************************************************************************)
(* ServicesHandler                                                         *)
(***************************************************************************)
\* _handle_sysv_command: the command line it runs
_handle_sysv_command(service, command) ==
    CASE command = "enable" -> <<"/sbin/chkconfig", service, "on">>
      [] command = "disable" -> <<"/sbin/chkconfig", service, "off">>
      [] command = "start" -> <<"/sbin/service", service, "start">>
      [] command = "stop" -> <<"/sbin/service", service, "stop">>
      [] command = "status" -> <<"/sbin/service", service, "status">>
      [] OTHER -> << >>

\* _handle_systemd_command: the command line it runs
_handle_systemd_command(service, command) ==
    CASE command = "enable" ->
             <<"/bin/systemctl", "enable", service, ".service">>
      [] command = "disable" ->
             <<"/bin/systemctl", "disable", service, ".service">>
      [] command = "start" ->
             <<"/bin/systemctl", "start", service, ".service">>
      [] command = "stop" ->
             <<"/bin/systemctl", "stop", service, ".service">>
      [] command = "status" ->
             <<"/bin/systemctl", "status", service, ".service">>
      [] OTHER -> << >>

_service_handlers == {"sysvinit", "systemd"}

\* _service_handler falling back to sysvinit for an unknown manager
_service_handler_default(manager_name) ==
    IF manager_name \in _service_handlers THEN manager_name ELSE "sysvinit"

\* _service_handler: the handler's key, or "" for None
_service_handler(manager_name) ==
    IF manager_name \in _service_handlers THEN manager_name ELSE ""

\* handler(self, service, command): the log entry of the CommandRunner run.
\* `status` is the exit status where the caller reads it.
ServiceCmd(handler, service, command) ==
    [op |-> command, mgr |-> handler, svc |-> service,
     cmd |-> IF handler = "sysvinit"
             THEN _handle_sysv_command(service, command)
             ELSE _handle_systemd_command(service, command)]

ServiceCmdSt(handler, service, command, st) ==
    [op |-> command, mgr |-> handler, svc |-> service,
     cmd |-> IF handler = "sysvinit"
             THEN _handle_sysv_command(service, command)
             ELSE _handle_systemd_command(service, command),
     status |-> st]

\* _initialize_service starting and stopping by the desired state alone
_initialize_service_unconditional(handler, service, properties, st) ==
    (IF "enabled" \in DOMAIN properties
     THEN IF to_boolean(properties["enabled"])
          THEN <<ServiceCmd(handler, service, "enable")>>
          ELSE <<ServiceCmd(handler, service, "disable")>>
     ELSE << >>)
    \o
    (IF "ensureRunning" \in DOMAIN properties
     THEN <<ServiceCmdSt(handler, service, "status", st)>>
          \o (IF to_boolean(properties["ensureRunning"])
              THEN <<ServiceCmd(handler, service, "start")>>
              ELSE <<ServiceCmd(handler, service, "stop")>>)
     ELSE << >>)

\* _initialize_service: the commands it runs, given the exit status `st` of
\* the status query
_initialize_service(handler, service, properties, st) ==
    (IF "enabled" \in DOMAIN properties
     THEN IF to_boolean(properties["enabled"])
          THEN <<ServiceCmd(handler, service, "enable")>>
          ELSE <<ServiceCmd(handler, service, "disable")>>
     ELSE << >>)
    \o
    (IF "ensureRunning" \in DOMAIN properties
     THEN LET ensure_running == to_boolean(properties["ensureRunning"])
              running == st = 0
          IN <<ServiceCmdSt(handler, service, "status", st)>>
             \o (IF ensure_running /\ ~running
                 THEN <<ServiceCmd(handler, service, "start")>>
                 ELSE IF ~ensure_running /\ running
                 THEN <<ServiceCmd(handler, service, "stop")>>
                 ELSE << >>)
     ELSE << >>)

\* _monitor_service without the return after a failed start
_monitor_service_no_return(handler, service, properties, st, start_st, order) ==
    IF "ensureRunning" \in DOMAIN properties
    THEN LET ensure_running == to_boolean(properties["ensureRunning"])
             running == st = 0
         IN <<ServiceCmdSt(handler, service, "status", st)>>
            \o (IF ensure_running /\ ~running
                THEN <<ServiceCmdSt(handler, service, "start", start_st)>>
                     \o DispatchLoop(hooks, order,
                                     <<"service", ".", "restarted">>,
                                     service, resource)
                ELSE << >>)
    ELSE << >>

\* _monitor_service enforcing the spec as _initialize_service does
_monitor_service_enforcing(handler, service, properties, st, start_st, order) ==
    _initialize_service(handler, service, properties, st)

\* _monitor_service: the commands and hook events it produces, given the exit
\* statuses of the status query and of the start command and the order in
\* which the hooks dict is iterated
_monitor_service(handler, service, properties, st, start_st, order) ==
    IF "ensureRunning" \in DOMAIN properties
    THEN LET ensure_running == to_boolean(properties["ensureRunning"])
             running == st = 0
         IN <<ServiceCmdSt(handler, service, "status", st)>>
            \o (IF ensure_running /\ ~running
                THEN <<ServiceCmdSt(handler, service, "start", start_st)>>
                     \o (IF start_st # 0
                         THEN << >>
                         ELSE DispatchLoop(hooks, order,
                                           <<"service", ".", "restarted">>,
                                           service, resource))
                ELSE << >>)
    ELSE << >>

(***************************************************************************)
(* RpmHelper                                                               *)
(***************************************************************************)
NoVersion == ""

\* The runs of digits and of letters of a version string, as
\* rpmUtils.miscutils.compareVerOnly (rpm's version comparison) sees them.
\* A numeric run is its value; an alphabetic run is a negative number, the
\* later in strcmp order the greater.
VersionTokens(v) ==
    CASE v = "2.2.10" -> <<2, 2, 10>>
      [] v = "2.2.20" -> <<2, 2, 20>>
      [] v = "2.2.020" -> <<2, 2, 20>>
      [] v = "2.2.22" -> <<2, 2, 22>>
      [] v = "2.2" -> <<2, 2>>
      [] v = "package is not installed" -> <<-1, -3, -2, -4>>
      [] OTHER -> << >>

\* rpm's segment-wise comparison: numeric runs compare by value, a numeric
\* run is newer than an alphabetic one, and when one string runs out the
\* one with segments left is newer
RECURSIVE rpmvercmp(_, _)
rpmvercmp(a, b) ==
    IF a = << >> /\ b = << >> THEN 0
    ELSE IF a = << >> THEN 0 - 1
    ELSE IF b = << >> THEN 1
    ELSE IF Head(a) < Head(b) THEN 0 - 1
    ELSE IF Head(a) > Head(b) THEN 1
    ELSE rpmvercmp(Tail(a), Tail(b))

compareVerOnly(v1, v2) ==
    IF v1 = v2 THEN 0 ELSE rpmvercmp(VersionTokens(v1), VersionTokens(v2))

\* compare_rpm_versions taking an absent version for equal to any version
compare_rpm_versions_absent_equal(v1, v2) ==
    IF v1 # NoVersion /\ v2 # NoVersion THEN compareVerOnly(v1, v2) ELSE 0

compare_rpm_versions(v1, v2) ==
    IF v1 # NoVersion /\ v2 # NoVersion THEN compareVerOnly(v1, v2)
    ELSE IF v1 # NoVersion THEN 1
    ELSE IF v2 # NoVersion THEN 0 - 1
    ELSE 0

\* the `versions` value of a package entry: a string, a list or null
VStr(s) == [kind |-> "str", str |-> s, list |-> << >>]
VList(l) == [kind |-> "list", str |-> "", list |-> l]
VNull == [kind |-> "null", str |-> "", list |-> << >>]

\* a descending sort that puts an element ahead of the elements equal to it
RECURSIVE sorted_reverse_unstable(_)
sorted_reverse_unstable(l) ==
    IF l = << >>
    THEN << >>
    ELSE LET rest == sorted_reverse_unstable(SubSeq(l, 1, Len(l) - 1))
             x == l[Len(l)]
             k == Cardinality({i \in 1..Len(rest) :
                                  compareVerOnly(rest[i], x) > 0})
         IN SubSeq(rest, 1, k) \o <<x>> \o SubSeq(rest, k + 1, Len(rest))

\* sorted(versions, compareVerOnly, reverse=True): a stable insertion of
\* each element behind the elements that are not older than it
RECURSIVE sorted_reverse(_)
sorted_reverse(l) ==
    IF l = << >>
    THEN << >>
    ELSE LET rest == sorted_reverse(SubSeq(l, 1, Len(l) - 1))
             x == l[Len(l)]
             k == Cardinality({i \in 1..Len(rest) :
                                  compareVerOnly(rest[i], x) >= 0})
         IN SubSeq(rest, 1, k) \o <<x>> \o SubSeq(rest, k + 1, Len(rest))

newest_rpm_version(versions) ==
    IF (versions.kind = "str" /\ versions.str # "")
       \/ (versions.kind = "list" /\ versions.list # << >>)
    THEN IF versions.kind = "str"
         THEN versions.str
         ELSE sorted_reverse(versions.list)[1]
    ELSE NoVersion

\* Python's `fmt % arg` for one argument.  fmt is cut at its conversion
\* specifiers: "%s" takes the argument, any other "%x" is an unsupported
\* format character.
RECURSIVE PyFormat(_, _)
PyFormat(fmt, arg) ==
    IF fmt = << >>
    THEN [exc |-> NoError, out |-> << >>]
    ELSE LET rest == PyFormat(Tail(fmt), arg)
         IN IF Head(fmt) = "%s"
            THEN [exc |-> rest.exc, out |-> arg \o rest.out]
            ELSE IF Head(fmt) \in {"%{"}
            THEN [exc |-> "ValueError", out |-> << >>]
            ELSE [exc |-> rest.exc, out |-> <<Head(fmt)>> \o rest.out]

\* "%s-%s" % (pkg_name, ver) if ver else pkg_name
PkgId(pkg_name, ver) ==
    IF ver # NoVersion THEN <<pkg_name, "-", ver>> ELSE <<pkg_name>>

\* what `rpm -q pkg` answers on the rpm database db: the exit status
RpmQuery(db, pkg) ==
    IF Len(pkg) = 1
    THEN IF db[pkg[1]] # NoVersion THEN 0 ELSE 1
    ELSE IF db[pkg[1]] = pkg[3] THEN 0 ELSE 1

\* rpm_package_installed: the command it runs and its answer
rpm_package_installed(db, pkg) ==
    LET cmd == PyFormat(<<"rpm -q ", "%s">>, pkg)
    IN [entry |-> [op |-> "rpmq", pkg |-> pkg, cmd |-> cmd.out,
                   status |-> RpmQuery(db, pkg)],
        result |-> RpmQuery(db, pkg) = 0]

\* yum_package_available: the command it runs, st its exit status
yum_package_available(pkg, st) ==
    LET cmd == PyFormat(<<"yum -C -y --showduplicates list available ",
                          "%s">>, pkg)
    IN [entry |-> [op |-> "yumlist", pkg |-> pkg, cmd |-> cmd.out,
                   status |-> st],
        result |-> st = 0]

\* rpm_package_version: building the command line raises before any command
\* runs; were it built, stdout would be the installed version or rpm's
\* "package ... is not installed" message
rpm_package_version(db, pkg) ==
    LET cmd == PyFormat(<<"rpm -q --queryformat '", "%{", "VERSION}-",
                          "%{", "RELEASE}' ", "%s">>, pkg)
    IN IF cmd.exc # NoError
       THEN [exc |-> cmd.exc, entries |-> << >>, stdout |-> NoVersion]
       ELSE [exc |-> NoError,
             entries |-> <<[op |-> "rpmqf", pkg |-> pkg, cmd |-> cmd.out]>>,
             stdout |-> IF RpmQuery(db, pkg) = 0
                        THEN db[pkg[1]]
                        ELSE "package is not installed"]

\* " ".join(packages)
RECURSIVE Join(_)
Join(packages) ==
    IF packages = << >> THEN << >>
    ELSE IF Len(packages) = 1 THEN Head(packages)
    ELSE Head(packages) \o <<" ">> \o Join(Tail(packages))

\* RpmHelper.install: the command it runs, st its exit status
install(packages, rpms, st) ==
    [exc |-> NoError,
     entries |-> <<[op |-> "install",
                    tool |-> IF rpms THEN "rpm" ELSE "yum",
                    cmd |-> (IF rpms
                             THEN <<"rpm -U --force --nosignature ">>
                             ELSE <<"yum -y install ">>) \o Join(packages),
                    pkgs |-> packages, status |-> st]>>]

\* RpmHelper.downgrade: with rpms it is install(packages); without, the
\* command is built and `Command` is an undefined name
downgrade(packages, rpms, st) ==
    IF rpms
    THEN [exc |-> NoError,
          entries |-> <<[op |-> "downgrade", tool |-> "rpm",
                         cmd |-> install(packages, TRUE, st).entries[1].cmd,
                         pkgs |-> packages, status |-> st]>>]
    ELSE [exc |-> "NameError", entries |-> << >>]

(***************************************************************************)
(* PackagesHandler                                                         *)
(***************************************************************************)
_package_order == <<"dpkg", "rpm", "apt", "yum">>

_package_handlers == {"yum", "rpm", "apt", "rubygems", "python"}

Index(seq, x) == CHOOSE i \in 1..Len(seq) : seq[i] = x

Cmp(a, b) == IF a < b THEN -1 ELSE IF a > b THEN 1 ELSE 0

\* the place of name.lower() among the manager names of the model in string
\* order
LowerRank(name) ==
    CASE name = "pacman" -> 1
      [] name = "python" -> 2
      [] name = "rubygems" -> 3
      [] name = "zypper" -> 4
      [] OTHER -> 0

_pkgsort(p1_name, p2_name) ==
    IF p1_name \in Range(_package_order) /\ p2_name \in Range(_package_order)
    THEN Cmp(Index(_package_order, p1_name), Index(_package_order, p2_name))
    ELSE IF p1_name \in Range(_package_order) THEN -1
    ELSE IF p2_name \in Range(_package_order) THEN 1
    ELSE Cmp(LowerRank(p1_name), LowerRank(p2_name))

\* the managers in the order of the document, not sorted
SortedManagers_document_order(packages) == Orders(DOMAIN packages)

\* sorted(self._packages.iteritems(), PackagesHandler._pkgsort): the orders
\* a sort by _pkgsort can give
SortedManagers(packages) ==
    {s \in Orders(DOMAIN packages) :
        \A i, j \in 1..Len(s) : i < j => _pkgsort(s[i], s[j]) <= 0}

\* _package_handler: the handler's key, or "" for None
_package_handler(manager_name) ==
    IF manager_name \in _package_handlers THEN manager_name ELSE ""

\* yum_evaluate without the branch that skips an installed package
yum_evaluate_no_installed_skip(db, pkg_name, versions, avail_st) ==
    LET ver == newest_rpm_version(versions)
        pkg == PkgId(pkg_name, ver)
        inst == rpm_package_installed(db, pkg)
        avail == yum_package_available(pkg, avail_st)
    IN IF ~avail.result
       THEN [exc |-> NoError, entries |-> <<inst.entry, avail.entry>>,
             installs |-> << >>, downgrades |-> << >>]
       ELSE IF ver = NoVersion
       THEN [exc |-> NoError, entries |-> <<inst.entry, avail.entry>>,
             installs |-> <<pkg>>, downgrades |-> << >>]
       ELSE [exc |-> "ValueError", entries |-> <<inst.entry, avail.entry>>,
             installs |-> << >>, downgrades |-> << >>]

\* yum_evaluate without the skip of a package that is not available
yum_evaluate_no_available_skip(db, pkg_name, versions, avail_st) ==
    LET ver == newest_rpm_version(versions)
        pkg == PkgId(pkg_name, ver)
        inst == rpm_package_installed(db, pkg)
        avail == yum_package_available(pkg, avail_st)
    IN IF inst.result
       THEN [exc |-> NoError, entries |-> <<inst.entry>>,
             installs |-> << >>, downgrades |-> << >>]
       ELSE IF ver = NoVersion
       THEN [exc |-> NoError, entries |-> <<inst.entry, avail.entry>>,
             installs |-> <<pkg>>, downgrades |-> << >>]
       ELSE [exc |-> "ValueError", entries |-> <<inst.entry, avail.entry>>,
             installs |-> << >>, downgrades |-> << >>]

\* One iteration of the loop of _handle_yum_packages up to the flush: the
\* queries it makes on the rpm database db, what it appends to installs and
\* to downgrades, and the exception that leaves it.  avail_st is the exit
\* status of the availability query.
yum_evaluate(db, pkg_name, versions, avail_st) ==
    LET ver == newest_rpm_version(versions)
        pkg == PkgId(pkg_name, ver)
        inst == rpm_package_installed(db, pkg)
        avail == yum_package_available(pkg, avail_st)
        cur == rpm_package_version(db, pkg)
        rc == compare_rpm_versions(cur.stdout, ver)
    IN IF inst.result
       THEN [exc |-> NoError, entries |-> <<inst.entry>>,
             installs |-> << >>, downgrades |-> << >>]
       ELSE IF ~avail.result
       THEN [exc |-> NoError, entries |-> <<inst.entry, avail.entry>>,
             installs |-> << >>, downgrades |-> << >>]
       ELSE IF ver = NoVersion
       THEN [exc |-> NoError, entries |-> <<inst.entry, avail.entry>>,
             installs |-> <<pkg>>, downgrades |-> << >>]
       ELSE IF cur.exc # NoError
       THEN [exc |-> cur.exc, entries |-> <<inst.entry, avail.entry>>,
             installs |-> << >>, downgrades |-> << >>]
       ELSE [exc |-> NoError,
             entries |-> <<inst.entry, avail.entry>> \o cur.entries,
             installs |-> IF rc < 0 THEN <<pkg>> ELSE << >>,
             downgrades |-> IF rc > 0 THEN <<pkg>> ELSE << >>]

\* the flush at the end of the iteration (lines 408-411): the commands run
\* for the lists as they stand
yum_flush(inst_list, down_list, inst_st, down_st) ==
    (IF inst_list # << >>
     THEN install(inst_list, FALSE, inst_st).entries ELSE << >>)
    \o
    (IF down_list # << >>
     THEN downgrade(down_list, TRUE, down_st).entries ELSE << >>)

\* the newest version the yum repository offers
RepoNewest == "2.2.22"

\* the rpm database after the commands `entries` have run: a command that
\* exits 0 leaves each package it names installed at the version named
RECURSIVE RpmDbAfter(_, _)
RpmDbAfter(db, entries) ==
    IF entries = << >>
    THEN db
    ELSE LET e == Head(entries)
             named == {n \in DOMAIN db :
                          \E k \in 1..Len(e.pkgs) : e.pkgs[k][1] = n}
             id(n) == e.pkgs[CHOOSE k \in 1..Len(e.pkgs) : e.pkgs[k][1] = n]
             db1 == IF e.status = 0
                    THEN [n \in DOMAIN db |->
                            IF n \in named
                            THEN IF Len(id(n)) = 3 THEN id(n)[3]
                                 ELSE IF db[n] # NoVersion THEN db[n]
                                 ELSE RepoNewest
                            ELSE db[n]]
                    ELSE db
         IN RpmDbAfter(db1, Tail(entries))

(***************************************************************************)
(* FilesHandler                                                            *)
(***************************************************************************)
\* json.dumps of a scalar of the document
json_dumps(v) ==
    IF v.t = "bool" THEN (IF v.b THEN "true" ELSE "false")
    ELSE IF v.t = "int" THEN ToString(v.i)
    ELSE "\"" \o v.s \o "\""

\* the body of the loop of apply_files for one file.  dir is what
\* os.makedirs met: "created", "exists" (OSError EEXIST, logged) or "denied"
\* (any other OSError, logged).  After "denied" the directory is missing:
\* open() raises IOError, wget exits non-zero and leaves no file, so that
\* os.chown raises OSError; none of them is caught.
apply_file(fdest, meta, dir, wget_st) ==
    LET mk == <<[op |-> "makedirs", dest |-> fdest, outcome |-> dir]>>
        write == [op |-> "write", dest |-> fdest,
                  text |-> IF meta["content"].t = "str"
                           THEN meta["content"].s
                           ELSE json_dumps(meta["content"])]
        wget == [op |-> "wget", dest |-> fdest,
                 cmd |-> <<"wget -O", fdest, meta["source"].s>>,
                 status |-> IF dir = "denied" THEN 1 ELSE wget_st]
        chown == <<[op |-> "chown", dest |-> fdest,
                    owner |-> IF "owner" \in DOMAIN meta
                              THEN meta["owner"].s ELSE "-1",
                    group |-> IF "group" \in DOMAIN meta
                              THEN meta["group"].s ELSE "-1"]>>
        chmod == IF "mode" \in DOMAIN meta
                 THEN <<[op |-> "chmod", dest |-> fdest,
                         mode |-> meta["mode"].s]>>
                 ELSE << >>
    IN IF "content" \in DOMAIN meta
       THEN IF dir = "denied"
            THEN [exc |-> "IOError", entries |-> mk]
            ELSE [exc |-> NoError, entries |-> mk \o <<write>> \o chown \o chmod]
       ELSE IF "source" \in DOMAIN meta
       THEN IF dir = "denied"
            THEN [exc |-> "OSError", entries |-> mk \o <<wget>>]
            ELSE [exc |-> NoError, entries |-> mk \o <<wget>> \o chown \o chmod]
       ELSE [exc |-> NoError, entries |-> mk]

(***************************************************************************)
(* Inputs: hook configurations, metadata documents, rpm databases          *)
(***************************************************************************)
Min(a, b) == IF a < b THEN a ELSE b

EvRestarted == <<"service", ".", "restarted">>
EvChanged == <<"config", ".", "changed">>

HookSectionPool ==
    [s \in {"web-any", "web-config", "db-restart"} |->
        CASE s = "web-any" ->
                 [triggers |-> EvRestarted \o <<",">> \o EvChanged,
                  path |-> <<"Resources", ".", "WebServer">>,
                  runas |-> "apache", action |-> "reload-web"]
          [] s = "web-config" ->
                 [triggers |-> EvChanged,
                  path |-> <<"Resources", ".", "WebServer", ".", "Metadata">>,
                  runas |-> "root", action |-> "reconfigure-web"]
          [] s = "db-restart" ->
                 [triggers |-> EvRestarted,
                  path |-> <<"Resources", ".", "DbServer", ".", "Metadata">>,
                  runas |-> "root", action |-> "notify-db"]]

MainSection == [stack |-> "teststack", credential_file |-> "/etc/cfn/creds"]

\* configuration files with a main section and at most MaxHooks hook sections
HupConfigs ==
    {[s \in S \cup {"main"} |->
         IF s = "main" THEN MainSection ELSE HookSectionPool[s]] :
       S \in {T \in SUBSET DOMAIN HookSectionPool : Cardinality(T) <= MaxHooks}}

\* the hook sections of the dispatch runs: the pool, and the section web-any
\* with its two triggers written in the other order
DispatchSectionPool ==
    HookSectionPool
    @@ ("web-any-rev" :>
           [triggers |-> EvChanged \o <<",">> \o EvRestarted,
            path |-> <<"Resources", ".", "WebServer">>,
            runas |-> "apache", action |-> "reload-web"])

DispatchConfigs ==
    {[s \in S \cup {"main"} |->
         IF s = "main" THEN MainSection ELSE DispatchSectionPool[s]] :
       S \in {T \in SUBSET DOMAIN DispatchSectionPool :
                 Cardinality(T) <= MaxHooks}}

\* the events dispatched to the registry: the two event names, a fragment of
\* one, and a run that spans the comma of a triggers value
EventNames ==
    {EvRestarted, EvChanged, <<"service">>, <<"restarted", ",", "config">>}

ResourceNames == {<<"WebServer">>, <<"DbServer">>}

InitKey == "AWS::CloudFormation::Init"

Doc(config) == (InitKey :> ("config" :> config))

\* documents that fail _is_valid_metadata: null, no init key, empty init value
InvalidDocs == {None, ("Other" :> ("config" :> None)), (InitKey :> None)}

ServiceNameList == <<"httpd", "mysqld", "crond">>
ServiceNames ==
    {ServiceNameList[i] : i \in 1..Min(MaxServices, Len(ServiceNameList))}
ServiceManagers == {"sysvinit", "systemd", "upstart"}

\* the service specs a monitoring pass is run on
MonitorPropsPool ==
    { << >>,
      ("enabled" :> JStr("True")) @@ ("ensureRunning" :> JStr(" yes ")),
      ("enabled" :> JStr("false")) @@ ("ensureRunning" :> JBool(FALSE)) }

\* the service specs an enforce pass is run on
PropsPool ==
    MonitorPropsPool
    \cup { ("enabled" :> JBool(TRUE)),
           ("enabled" :> JStr("on")) @@ ("ensureRunning" :> JInt(1)) }

\* services sections: each of up to MaxServices services under one manager
ServiceSections(pool) ==
    {[m \in {asg[n] : n \in DOMAIN asg} |->
         [n \in {k \in DOMAIN asg : asg[k] = m} |-> props[n]]] :
       asg \in UNION {[N -> ServiceManagers] :
                         N \in SUBSET ServiceNames \ {{}}},
       props \in [ServiceNames -> pool]}

PkgNameList == <<"httpd", "mysql", "php">>
PkgNames == {PkgNameList[i] : i \in 1..Min(MaxPkgs, Len(PkgNameList))}

VersionSpecPool ==
    {VList(<< >>), VStr("2.2.20"), VList(<<"2.2.10", "2.2.22">>)}

InstalledVersions == {NoVersion, "2.2.10", "2.2.22"}

YumMaps == UNION {[N -> VersionSpecPool] : N \in SUBSET PkgNames \ {{}}}

StubEntries == ("tool" :> VList(<< >>))

PackageSections ==
    {("yum" :> ym) : ym \in YumMaps}
    \cup {("yum" :> ("httpd" :> VList(<< >>))) @@ (m :> StubEntries) :
            m \in {"rpm", "dpkg", "pacman"}}

PkgManagerNames == {"dpkg", "rpm", "apt", "yum", "python", "zypper"}

\* package sections that name two to MaxKinds package managers
MultiKindSections ==
    {[m \in K |-> IF m = "yum" THEN ("httpd" :> VList(<< >>))
                  ELSE StubEntries] :
       K \in {S \in SUBSET PkgManagerNames :
                 Cardinality(S) >= 2 /\ Cardinality(S) <= MaxKinds}}

\* version strings: an absent one, and present ones two of which are equal
\* as versions
VersionUniverse ==
    {NoVersion, "2.2", "2.2.10", "2.2.20", "2.2.020", "2.2.22"}

RECURSIVE SeqsUpTo(_, _)
SeqsUpTo(S, n) ==
    IF n = 0 THEN {<< >>}
    ELSE SeqsUpTo(S, n - 1)
         \cup {Append(q, x) : q \in SeqsUpTo(S, n - 1), x \in S}

\* arguments of newest_rpm_version: null, a string, a list of at most
\* MaxVersions version strings
VersionInputs ==
    {VNull} \cup {VStr(v) : v \in VersionUniverse}
    \cup {VList(l) : l \in SeqsUpTo(VersionUniverse \ {NoVersion}, MaxVersions)}

\* the identifiers an evaluation queues: a bare name or name-version for an
\* install, name-version for a downgrade
InstallIds ==
    {PkgId(n, v) : n \in PkgNames, v \in {NoVersion, "2.2.20", "2.2.22"}}
DowngradeIds == {PkgId(n, v) : n \in PkgNames, v \in {"2.2", "2.2.10"}}

\* the lists of at most one identifier per package name
Batches(ids) ==
    {q \in SeqsUpTo(ids, MaxPkgs) :
        \A i, j \in 1..Len(q) : i # j => q[i][1] # q[j][1]}

EmptyDb == [n \in PkgNames |-> NoVersion]

FileNameList == <<"/etc/app.conf", "/var/www/index.html", "/etc/motd">>
FileNames == {FileNameList[i] : i \in 1..Min(MaxFiles, Len(FileNameList))}

\* file specs: inline content, a source to download, neither of them
FileMetaPool ==
    { ("content" :> JStr("listen 80")),
      ("source" :> JStr("http://repo/index.html"))
          @@ ("owner" :> JStr("apache")) @@ ("mode" :> JStr("0644")),
      ("owner" :> JStr("root")) }

FilesSections ==
    UNION {[N -> FileMetaPool] : N \in SUBSET FileNames \ {{}}}

MixedPackages == ("yum" :> ("httpd" :> VList(<< >>)))

MixedServices ==
    ("sysvinit" :> ("httpd" :> (("enabled" :> JBool(TRUE))
                                @@ ("ensureRunning" :> JBool(TRUE)))))

\* documents with a section of each kind, and documents with files alone
MixedDocs ==
    {Doc(("packages" :> MixedPackages) @@ ("services" :> MixedServices))}
    \cup {Doc(("packages" :> MixedPackages) @@ ("files" :> fs)
               @@ ("services" :> MixedServices)) : fs \in FilesSections}
    \cup {Doc(("files" :> fs)) : fs \in FilesSections}

KindProps ==
    ("enabled" :> JStr("True")) @@ ("ensureRunning" :> JStr(" yes "))

\* documents whose package and service sections name several backend kinds
KindDocs ==
    {Doc(("packages" :> (MixedPackages @@ (m :> StubEntries)))
         @@ ("services" :> ss)) :
       m \in {"rpm", "dpkg", "pacman"}, ss \in ServiceSections({KindProps})}

\* the configuration file with the hooks of two resources
TwoHooksConfig ==
    [s \in {"main", "web-any", "db-restart"} |->
        IF s = "main" THEN MainSection ELSE HookSectionPool[s]]

(***************************************************************************)
(* Initial states                                                          *)
(***************************************************************************)
InitLocals ==
    /\ entry = ""
    /\ pc = "idle"
    /\ err = NoError
    /\ calls = 0
    /\ log = << >>
    /\ mgrTodo = << >>
    /\ curMgr = ""
    /\ itemTodo = {}
    /\ installs = << >>
    /\ downgrades = << >>

\* a Metadata object after retrieve(), to be processed by cfn_init
Init ==
    /\ InitLocals
    /\ resource = <<"WebServer">>
    /\ hooks = HupConfig(("main" :> MainSection))
    /\ hookOrder = << >>
    /\ \/ /\ metadata \in {Doc(("packages" :> ps)) : ps \in PackageSections}
          /\ installed \in [PkgNames -> InstalledVersions]
       \/ /\ metadata \in {Doc(("services" :> ss)) :
                             ss \in ServiceSections(PropsPool)}
                          \cup {Doc(("packages" :> ps)) :
                                  ps \in MultiKindSections}
                          \cup MixedDocs \cup InvalidDocs \cup {Doc(None)}
          /\ installed = EmptyDb
    /\ data = metadata

\* a Metadata object after retrieve() and a loaded hooks configuration, to
\* be processed by cfn_hup
InitHup ==
    /\ InitLocals
    /\ resource = <<"WebServer">>
    /\ hooks \in {HupConfig(c) : c \in HupConfigs}
    /\ hookOrder \in Orders(DOMAIN hooks)
    /\ metadata \in {Doc(("services" :> ss)) :
                       ss \in ServiceSections(MonitorPropsPool)}
                    \cup InvalidDocs \cup {Doc(None)}
    /\ installed = EmptyDb
    /\ data = metadata

\* a loaded hooks configuration
InitDispatch ==
    /\ InitLocals
    /\ resource = <<"WebServer">>
    /\ hooks \in {HupConfig(c) : c \in DispatchConfigs}
    /\ hookOrder \in Orders(DOMAIN hooks)
    /\ metadata = None
    /\ installed = EmptyDb
    /\ data = metadata

\* a Metadata object after retrieve() on which both entry points are called
InitAll ==
    /\ InitLocals
    /\ resource = <<"WebServer">>
    /\ hooks = HupConfig(TwoHooksConfig)
    /\ hookOrder \in Orders(DOMAIN hooks)
    /\ metadata \in MixedDocs \cup KindDocs \cup InvalidDocs \cup {Doc(None)}
    /\ installed = EmptyDb
    /\ data = metadata

\* no document loaded: RpmHelper's class methods are called directly
InitVersions ==
    /\ InitLocals
    /\ resource = <<"WebServer">>
    /\ hooks = HupConfig(("main" :> MainSection))
    /\ hookOrder = << >>
    /\ metadata = None
    /\ installed = EmptyDb
    /\ data = metadata

\* _handle_yum_packages at its flush (line 408), with the lists installs and
\* downgrades as an evaluation can have left them; the packages queued for
\* a downgrade are installed at a newer version
InitFlush ==
    /\ entry = "cfn_init"
    /\ pc = "flush"
    /\ err = NoError
    /\ calls = 1
    /\ log = << >>
    /\ mgrTodo = << >>
    /\ curMgr = "yum"
    /\ itemTodo = {}
    /\ installs \in Batches(InstallIds)
    /\ downgrades \in Batches(DowngradeIds)
    /\ \A i \in 1..Len(installs), j \in 1..Len(downgrades) :
          installs[i][1] # downgrades[j][1]
    /\ resource = <<"WebServer">>
    /\ hooks = HupConfig(("main" :> MainSection))
    /\ hookOrder = << >>
    /\ metadata = None
    /\ installed = [n \in PkgNames |->
                       IF \E j \in 1..Len(downgrades) : downgrades[j][1] = n
                       THEN "2.2.22" ELSE NoVersion]
    /\ data = metadata

(***************************************************************************)
(* Metadata: the entry points                                              *)
(***************************************************************************)
\* _is_valid_metadata without the test of the value under the key
_is_valid_metadata_key_only ==
    /\ Truthy(metadata)
    /\ InitKey \in DOMAIN metadata

\* the value _is_valid_metadata returns
_is_valid_metadata ==
    /\ Truthy(metadata)
    /\ InitKey \in DOMAIN metadata
    /\ Truthy(metadata[InitKey])

\* self._config
Config == metadata["config"]

\* cfn_init up to the loop of apply_packages
cfn_init ==
    /\ pc \in {"idle", "done", "raised"}
    /\ calls < MaxCalls
    /\ calls' = calls + 1
    /\ entry' = "cfn_init"
    /\ log' = << >>
    /\ UNCHANGED <<data, resource, hooks, hookOrder, installed, curMgr,
                   itemTodo, installs, downgrades>>
    /\ IF ~_is_valid_metadata
       THEN /\ pc' = "raised"
            /\ err' = "invalid metadata"
            /\ UNCHANGED <<metadata, mgrTodo>>
       ELSE /\ metadata' = metadata[InitKey]
            /\ IF "config" \notin DOMAIN metadata[InitKey]
               THEN /\ pc' = "raised"
                    /\ err' = "KeyError"
                    /\ UNCHANGED mgrTodo
               ELSE LET packages ==
                            DictGet(metadata[InitKey]["config"], "packages")
                    IN /\ err' = NoError
                       /\ IF ~Truthy(packages)
                          THEN pc' = "files" /\ mgrTodo' = << >>
                          ELSE /\ pc' = "packages"
                               /\ mgrTodo' \in SortedManagers(packages)

\* apply_packages: one turn of `for manager, package_entries in packages`
apply_packages ==
    /\ pc = "packages"
    /\ UNCHANGED <<metadata, data, entry, resource, hooks,
                   hookOrder, err, calls,
                   installed>>
    /\ IF mgrTodo = << >>
       THEN /\ pc' = "files"
            /\ UNCHANGED <<log, mgrTodo, curMgr, itemTodo, installs,
                           downgrades>>
       ELSE LET manager == Head(mgrTodo)
                handler == _package_handler(manager)
                package_entries == Config["packages"][manager]
            IN /\ mgrTodo' = Tail(mgrTodo)
               /\ IF handler = "yum"
                  THEN /\ log' = Append(log, [op |-> "makecache",
                                              cmd |-> <<"yum -y makecache">>])
                       /\ curMgr' = manager
                       /\ itemTodo' = DOMAIN package_entries
                       /\ installs' = << >>
                       /\ downgrades' = << >>
                       /\ pc' = IF DOMAIN package_entries = {}
                                THEN "packages" ELSE "yum"
                  ELSE \* no handler (skipped with a warning) or a stub
                       UNCHANGED <<log, pc, curMgr, itemTodo, installs,
                                   downgrades>>

\* _handle_yum_packages: one iteration of `for pkg_name, versions in
\* packages.iteritems()`, the flush at its end included
_handle_yum_packages ==
    /\ pc = "yum"
    /\ UNCHANGED <<metadata, data, entry, resource, hooks,
                   hookOrder, calls, mgrTodo,
                   curMgr>>
    /\ \E pkg_name \in itemTodo, avail_st \in {0, 1},
          inst_st \in {0, 1}, down_st \in {0, 1} :
         LET versions == Config["packages"][curMgr][pkg_name]
             r == yum_evaluate(installed, pkg_name, versions, avail_st)
             flush == yum_flush(installs \o r.installs,
                                downgrades \o r.downgrades, inst_st, down_st)
         IN /\ itemTodo' = itemTodo \ {pkg_name}
            /\ IF r.exc # NoError
               THEN /\ pc' = "raised"
                    /\ err' = r.exc
                    /\ log' = log \o r.entries
                    /\ UNCHANGED <<installs, downgrades, installed>>
               ELSE /\ err' = err
                    /\ installs' = installs \o r.installs
                    /\ downgrades' = downgrades \o r.downgrades
                    /\ log' = log \o r.entries \o flush
                    /\ installed' = RpmDbAfter(installed, flush)
                    /\ pc' = IF itemTodo' = {} THEN "packages" ELSE "yum"

\* apply_files up to its loop; for a document without files it returns, and
\* apply_services runs up to its loop
apply_files ==
    /\ pc = "files"
    /\ UNCHANGED <<metadata, data, entry, resource, hooks,
                   hookOrder, err, calls, log, curMgr, installs, downgrades,
                   installed>>
    /\ LET files == DictGet(Config, "files")
           services == DictGet(Config, "services")
       IN IF Truthy(files)
          THEN /\ pc' = "file"
               /\ itemTodo' = DOMAIN files
               /\ mgrTodo' = mgrTodo
          ELSE /\ itemTodo' = itemTodo
               /\ IF ~Truthy(services)
                  THEN pc' = "done" /\ mgrTodo' = << >>
                  ELSE pc' = "services" /\ mgrTodo' \in Orders(DOMAIN services)

\* apply_files: one turn of `for fdest, meta in self._files.iteritems()`;
\* after the last one apply_services runs up to its loop
apply_files_loop ==
    /\ pc = "file"
    /\ UNCHANGED <<metadata, data, entry, resource, hooks,
                   hookOrder, calls, curMgr, installs, downgrades, installed>>
    /\ \E fdest \in itemTodo, dir \in {"created", "exists", "denied"},
          wget_st \in {0, 1} :
         LET r == apply_file(fdest, Config["files"][fdest], dir, wget_st)
             services == DictGet(Config, "services")
         IN /\ log' = log \o r.entries
            /\ itemTodo' = itemTodo \ {fdest}
            /\ IF r.exc # NoError
               THEN pc' = "raised" /\ err' = r.exc /\ mgrTodo' = mgrTodo
               ELSE /\ err' = err
                    /\ IF itemTodo' # {}
                       THEN pc' = "file" /\ mgrTodo' = mgrTodo
                       ELSE IF ~Truthy(services)
                       THEN pc' = "done" /\ mgrTodo' = << >>
                       ELSE /\ pc' = "services"
                            /\ mgrTodo' \in Orders(DOMAIN services)

\* apply_services: one turn of `for manager, service_entries in ...`
apply_services ==
    /\ pc = "services"
    /\ UNCHANGED <<metadata, data, entry, resource, hooks,
                   hookOrder, err, calls, log,
                   installs,
                   downgrades, installed>>
    /\ IF mgrTodo = << >>
       THEN pc' = "done" /\ UNCHANGED <<mgrTodo, curMgr, itemTodo>>
       ELSE LET manager == Head(mgrTodo)
                handler == _service_handler(manager)
                service_entries == Config["services"][manager]
            IN /\ mgrTodo' = Tail(mgrTodo)
               /\ IF handler = ""
                  THEN UNCHANGED <<pc, curMgr, itemTodo>>
                  ELSE /\ curMgr' = manager
                       /\ itemTodo' = DOMAIN service_entries
                       /\ pc' = IF DOMAIN service_entries = {}
                                THEN "services" ELSE "initialize"

\* _initialize_services: one turn of its loop, a call of _initialize_service
_initialize_services ==
    /\ pc = "initialize"
    /\ UNCHANGED <<metadata, data, entry, resource, hooks,
                   hookOrder, err, calls, mgrTodo,
                   curMgr,
                   installs, downgrades, installed>>
    /\ \E service \in itemTodo, st \in {0, 1} :
         /\ log' = log \o _initialize_service(
                              _service_handler(curMgr), service,
                              Config["services"][curMgr][service], st)
         /\ itemTodo' = itemTodo \ {service}
         /\ pc' = IF itemTodo' = {} THEN "services" ELSE "initialize"

\* cfn_hup calling _process_config as cfn_init does
cfn_hup_process_config ==
    /\ pc \in {"idle", "done", "raised"}
    /\ calls < MaxCalls
    /\ calls' = calls + 1
    /\ entry' = "cfn_hup"
    /\ log' = << >>
    /\ UNCHANGED <<data, resource, hooks, hookOrder, installed, curMgr,
                   itemTodo, installs, downgrades>>
    /\ IF ~_is_valid_metadata
       THEN /\ pc' = "raised"
            /\ err' = "invalid metadata"
            /\ UNCHANGED <<metadata, mgrTodo>>
       ELSE /\ metadata' = metadata[InitKey]
            /\ IF "config" \notin DOMAIN metadata[InitKey]
               THEN /\ pc' = "raised"
                    /\ err' = "KeyError"
                    /\ UNCHANGED mgrTodo
               ELSE LET packages ==
                            DictGet(metadata[InitKey]["config"], "packages")
                    IN /\ err' = NoError
                       /\ IF ~Truthy(packages)
                          THEN pc' = "files" /\ mgrTodo' = << >>
                          ELSE /\ pc' = "packages"
                               /\ mgrTodo' \in SortedManagers(packages)

\* cfn_hup up to the loop of monitor_services
cfn_hup ==
    /\ pc \in {"idle", "done", "raised"}
    /\ calls < MaxCalls
    /\ calls' = calls + 1
    /\ entry' = "cfn_hup"
    /\ log' = << >>
    /\ UNCHANGED <<data, resource, hooks, hookOrder, installed, curMgr,
                   itemTodo, installs, downgrades>>
    /\ IF ~_is_valid_metadata
       THEN /\ pc' = "raised"
            /\ err' = "invalid metadata"
            /\ UNCHANGED <<metadata, mgrTodo>>
       ELSE /\ metadata' = metadata[InitKey]
            /\ IF "config" \notin DOMAIN metadata[InitKey]
               THEN /\ pc' = "raised"
                    /\ err' = "KeyError"
                    /\ UNCHANGED mgrTodo
               ELSE LET s == DictGet(metadata[InitKey]["config"], "services")
                    IN /\ err' = NoError
                       /\ IF ~Truthy(s)
                          THEN pc' = "done" /\ mgrTodo' = << >>
                          ELSE pc' = "monitor" /\ mgrTodo' \in Orders(DOMAIN s)

\* monitor_services: one turn of `for manager, service_entries in ...`
monitor_services ==
    /\ pc = "monitor"
    /\ UNCHANGED <<metadata, data, entry, resource, hooks,
                   hookOrder, err, calls, log,
                   installs,
                   downgrades, installed>>
    /\ IF mgrTodo = << >>
       THEN pc' = "done" /\ UNCHANGED <<mgrTodo, curMgr, itemTodo>>
       ELSE LET manager == Head(mgrTodo)
                handler == _service_handler(manager)
                service_entries == Config["services"][manager]
            IN /\ mgrTodo' = Tail(mgrTodo)
               /\ IF handler = ""
                  THEN UNCHANGED <<pc, curMgr, itemTodo>>
                  ELSE /\ curMgr' = manager
                       /\ itemTodo' = DOMAIN service_entries
                       /\ pc' = IF DOMAIN service_entries = {}
                                THEN "monitor" ELSE "monitoring"

\* _monitor_services: one turn of its loop, a call of _monitor_service
_monitor_services ==
    /\ pc = "monitoring"
    /\ UNCHANGED <<metadata, data, entry, resource, hooks,
                   hookOrder, err, calls, mgrTodo,
                   curMgr,
                   installs, downgrades, installed>>
    /\ \E service \in itemTodo, st \in {0, 1}, start_st \in {0, 1} :
         /\ log' = log \o _monitor_service(
                              _service_handler(curMgr), service,
                              Config["services"][curMgr][service],
                              st, start_st, hookOrder)
         /\ itemTodo' = itemTodo \ {service}
         /\ pc' = IF itemTodo' = {} THEN "monitor" ELSE "monitoring"

NumEvents == Cardinality({i \in 1..Len(log) : log[i].op = "event"})

\* an event raised into the registry: Hook.event on every registered hook
Dispatch ==
    /\ pc = "idle"
    /\ NumEvents < MaxEvents * Cardinality(DOMAIN hooks)
    /\ \E ev_name \in EventNames, ev_resource \in ResourceNames :
         log' = log \o DispatchLoop(hooks, hookOrder, ev_name, "httpd",
                                    ev_resource)
    /\ UNCHANGED <<metadata, data, entry, resource, hooks,
                   hookOrder, pc, err, calls,
                   mgrTodo, curMgr,
                   itemTodo, installs, downgrades, installed>>

\* a call RpmHelper.compare_rpm_versions(v1, v2), recorded with its result
CompareVersions ==
    /\ pc = "idle"
    /\ Len(log) < MaxCompares
    /\ \A i \in 1..Len(log) : log[i].op = "compare_rpm_versions"
    /\ \E v1 \in VersionUniverse, v2 \in VersionUniverse :
         log' = Append(log, [op |-> "compare_rpm_versions",
                             v1 |-> v1, v2 |-> v2,
                             rc |-> compare_rpm_versions(v1, v2)])
    /\ UNCHANGED <<metadata, data, entry, resource, hooks,
                   hookOrder, pc, err, calls, mgrTodo, curMgr, itemTodo,
                   installs, downgrades, installed>>

\* a call RpmHelper.newest_rpm_version(versions), recorded with its result
NewestVersion ==
    /\ pc = "idle"
    /\ log = << >>
    /\ \E versions \in VersionInputs :
         log' = <<[op |-> "newest_rpm_version", versions |-> versions,
                   result |-> newest_rpm_version(versions)]>>
    /\ UNCHANGED <<metadata, data, entry, resource, hooks,
                   hookOrder, pc, err, calls, mgrTodo, curMgr, itemTodo,
                   installs, downgrades, installed>>

\* the flush of _handle_yum_packages (lines 408-411) on the lists as they
\* stand
FlushBatches ==
    /\ pc = "flush"
    /\ \E inst_st \in {0, 1}, down_st \in {0, 1} :
         LET flush == yum_flush(installs, downgrades, inst_st, down_st)
         IN /\ log' = log \o flush
            /\ installed' = RpmDbAfter(installed, flush)
    /\ pc' = "done"
    /\ UNCHANGED <<metadata, data, entry, resource, hooks,
                   hookOrder, err, calls, mgrTodo, curMgr, itemTodo,
                   installs, downgrades>>

(***************************************************************************)
(* Specifications                                                          *)
(***************************************************************************)
Next ==
    \/ cfn_init
    \/ apply_packages
    \/ _handle_yum_packages
    \/ apply_files
    \/ apply_files_loop
    \/ apply_services
    \/ _initialize_services

Spec == Init /\ [][Next]_vars

NextHup ==
    \/ cfn_hup
    \/ monitor_services
    \/ _monitor_services

SpecHup == InitHup /\ [][NextHup]_vars

NextAll ==
    \/ cfn_init
    \/ apply_packages
    \/ _handle_yum_packages
    \/ apply_files
    \/ apply_files_loop
    \/ apply_services
    \/ _initialize_services
    \/ cfn_hup
    \/ monitor_services
    \/ _monitor_services

SpecAll == InitAll /\ [][NextAll]_vars

NextVersions ==
    \/ CompareVersions
    \/ NewestVersion

SpecVersions == InitVersions /\ [][NextVersions]_vars

NextFlush == FlushBatches

SpecFlush == InitFlush /\ [][NextFlush]_vars

NextDispatch == Dispatch

SpecDispatch == InitDispatch /\ [][NextDispatch]_vars

(***************************************************************************)
(* Properties                                                              *)
(***************************************************************************)
Entries(ops) == {i \in 1..Len(log) : log[i].op \in ops}

\* the trigger set of a hook: the comma-separated event names of `triggers`
TriggerSet(h) == Range(split(h.triggers, ","))

\* entry i is a call of Hook.event that ran the hook's action
Fired(i) ==
    /\ i < Len(log)
    /\ log[i + 1].op = "action"
    /\ log[i + 1].who = log[i].who

\* C1: a hook's action runs for a dispatched event if and only if the second
\* dot-segment of its path is the event's resource and the event name is a
\* member of its trigger set; of several hooks every matching one fires and
\* no other does.
C1_FiresIffTriggerMember ==
    \A i \in Entries({"event"}) :
        Fired(i) <=> /\ resource_name_get(hooks[log[i].who]) = log[i].res
                     /\ log[i].name \in TriggerSet(hooks[log[i].who])

\* C2: in a monitoring pass a service whose start command returns non-zero
\* gets no hook event and no hook action, and no exception is raised.
C2_FailedRestartIsSilent ==
    \A i \in Entries({"start"}) :
        log[i].status # 0 =>
            /\ \A j \in Entries({"event"}) : log[j].obj # log[i].svc
            /\ i < Len(log) => log[i + 1].op \notin {"event", "action"}
            /\ err = NoError
            /\ pc # "raised"

C2_Witness ==
    /\ pc = "done"
    /\ \E i \in Entries({"start"}) : log[i].status # 0
    /\ \E h \in DOMAIN hooks : EventMatches(hooks[h], EvRestarted, resource)

\* C3: in a monitoring pass a service found not running whose start command
\* returns zero has 'service.restarted', with its name and the handler's
\* resource, delivered exactly once to every registered hook, after the
\* start command; no other event is delivered, and none for a service that
\* was found running.
C3_RestartNotifiesEveryHookOnce ==
    /\ \A i \in Entries({"start"}) :
          log[i].status = 0 =>
              \A h \in DOMAIN hooks :
                  /\ Cardinality({j \in Entries({"event"}) :
                                     /\ log[j].who = h
                                     /\ log[j].obj = log[i].svc}) = 1
                  /\ \E j \in Entries({"event"}) :
                        /\ j > i
                        /\ log[j].who = h
                        /\ log[j].obj = log[i].svc
                        /\ log[j].name = EvRestarted
                        /\ log[j].res = resource
    /\ \A j \in Entries({"event"}) :
          \E i \in Entries({"start"}) :
              i < j /\ log[i].status = 0 /\ log[i].svc = log[j].obj
    /\ \A i \in Entries({"status"}) :
          log[i].status = 0 =>
              \A j \in Entries({"event"}) : log[j].obj # log[i].svc

C3_Witness ==
    /\ pc = "done"
    /\ Cardinality(DOMAIN hooks) >= 2
    /\ \E i \in Entries({"start"}) : log[i].status = 0
    /\ \E i \in Entries({"status"}) : log[i].status = 0

\* the services an enforce pass has handed to _initialize_service
Initialized ==
    IF pc \in {"services", "initialize", "done"}
       /\ "config" \in DOMAIN metadata
       /\ Truthy(DictGet(Config, "services"))
    THEN {ms \in UNION {{<<m, n>> : n \in DOMAIN Config["services"][m]} :
                          m \in DOMAIN Config["services"]} :
            /\ ms[1] \in _service_handlers
            /\ ms[1] \notin Range(mgrTodo)
            /\ ~(ms[1] = curMgr /\ pc = "initialize" /\ ms[2] \in itemTodo)}
    ELSE {}

PropsOf(ms) == Config["services"][ms[1]][ms[2]]

Issued(ms, op) ==
    {i \in Entries({op}) : log[i].mgr = ms[1] /\ log[i].svc = ms[2]}

SaysTrue(v) == v \in {JBool(TRUE), JStr("true"), JStr("True")}
SaysFalse(v) == v \in {JBool(FALSE), JStr("false"), JStr("False")}

\* C4: in an enforce pass a service whose spec has 'enabled' gets exactly one
\* command of enable and disable, enable for true and disable for false,
\* whatever the status query answers; a service without 'enabled' gets
\* neither.
C4_EnableOrDisableExactlyOnce ==
    \A ms \in Initialized :
        LET nEnable == Cardinality(Issued(ms, "enable"))
            nDisable == Cardinality(Issued(ms, "disable"))
        IN IF "enabled" \in DOMAIN PropsOf(ms)
           THEN /\ nEnable + nDisable = 1
                /\ SaysTrue(PropsOf(ms)["enabled"]) => nEnable = 1
                /\ SaysFalse(PropsOf(ms)["enabled"]) => nDisable = 1
           ELSE nEnable = 0 /\ nDisable = 0

C4_Witness ==
    /\ pc = "done"
    /\ \E ms \in Initialized :
          /\ "enabled" \in DOMAIN PropsOf(ms)
          /\ SaysTrue(PropsOf(ms)["enabled"])
          /\ \E i \in Issued(ms, "status") : log[i].status = 0
    /\ \E ms \in Initialized :
          /\ "enabled" \in DOMAIN PropsOf(ms)
          /\ SaysFalse(PropsOf(ms)["enabled"])

WantsRunning(v) == v \in {JBool(TRUE), JStr("true"), JStr(" yes "), JInt(1)}
WantsStopped(v) == v \in {JBool(FALSE), JStr("false")}

\* C5: in an enforce pass a service whose spec has 'ensureRunning' has its
\* status queried once; then one start if it should run and does not, one
\* stop if it should not run and does, and neither otherwise.  A service
\* without 'ensureRunning' gets no status, start or stop command.
C5_StartStopFollowObservedState ==
    \A ms \in Initialized :
        LET q == Issued(ms, "status")
            nStart == Cardinality(Issued(ms, "start"))
            nStop == Cardinality(Issued(ms, "stop"))
        IN IF "ensureRunning" \in DOMAIN PropsOf(ms)
           THEN /\ Cardinality(q) = 1
                /\ \A i \in q :
                      LET v == PropsOf(ms)["ensureRunning"]
                          running == log[i].status = 0
                      IN /\ WantsRunning(v) \/ WantsStopped(v)
                         /\ nStart = (IF WantsRunning(v) /\ ~running
                                      THEN 1 ELSE 0)
                         /\ nStop = (IF WantsStopped(v) /\ running
                                     THEN 1 ELSE 0)
                         /\ \A j \in Issued(ms, "start") : j > i
                         /\ \A j \in Issued(ms, "stop") : j > i
           ELSE Cardinality(q) = 0 /\ nStart = 0 /\ nStop = 0

C5_Witness ==
    /\ pc = "done"
    /\ \E ms \in Initialized : Cardinality(Issued(ms, "start")) = 1
    /\ \E ms \in Initialized : Cardinality(Issued(ms, "stop")) = 1

\* a step of _handle_yum_packages that evaluates package p
Evaluates(p) == pc = "yum" /\ p \in itemTodo /\ p \notin itemTodo'

\* the version the spec of package p asks for
DesiredVersion(p) == newest_rpm_version(Config["packages"][curMgr][p])

\* the availability query of the step answered that the package is available
FoundAvailable(p) ==
    \E k \in (Len(log) + 1)..Len(log') :
        /\ log'[k].op = "yumlist"
        /\ log'[k].pkg = PkgId(p, DesiredVersion(p))
        /\ log'[k].status = 0

\* C6: a package whose spec names a version, whose installed version is
\* older than the desired one and which the repository offers has exactly
\* one install queued, under the identifier name-version, and no downgrade.
C6_OlderInstalledQueuesOneInstall ==
    [][\A p \in PkgNames :
          (/\ Evaluates(p)
           /\ DesiredVersion(p) # NoVersion
           /\ installed[p] # NoVersion
           /\ compare_rpm_versions(installed[p], DesiredVersion(p)) < 0
           /\ FoundAvailable(p))
          => /\ installs' = Append(installs, PkgId(p, DesiredVersion(p)))
             /\ downgrades' = downgrades]_vars

\* C7: a package whose spec names a version, whose installed version is
\* newer than the desired one and which the repository offers has exactly
\* one downgrade queued and no install; with the installed version equal to
\* the desired one nothing is queued.
C7_NewerInstalledQueuesOneDowngrade ==
    [][\A p \in PkgNames :
          (/\ Evaluates(p)
           /\ DesiredVersion(p) # NoVersion
           /\ installed[p] # NoVersion)
          => /\ (/\ compare_rpm_versions(installed[p], DesiredVersion(p)) > 0
                 /\ FoundAvailable(p))
                => /\ downgrades' =
                          Append(downgrades, PkgId(p, DesiredVersion(p)))
                   /\ installs' = installs
             /\ compare_rpm_versions(installed[p], DesiredVersion(p)) = 0
                => installs' = installs /\ downgrades' = downgrades]_vars

\* the packages without version constraint that the pass found installed
FoundInstalledUnversioned ==
    {log[i].pkg : i \in {k \in Entries({"rpmq"}) :
                            Len(log[k].pkg) = 1 /\ log[k].status = 0}}

\* C8: a package without version constraint that is already installed is in
\* no install batch and in no downgrade batch of the pass.
C8_InstalledUnversionedUntouched ==
    \A pkg \in FoundInstalledUnversioned :
        /\ \A j \in Entries({"install", "downgrade"}) :
              pkg \notin Range(log[j].pkgs)
        /\ pkg \notin Range(installs) \cup Range(downgrades)

C8_Witness ==
    /\ pc = "done"
    /\ \E i \in Entries({"rpmq"}) :
          /\ Len(log[i].pkg) = 1
          /\ log[i].status = 0
          /\ \E j \in Entries({"install"}) : j > i
          /\ \E j \in Entries({"install"}) : j < i

\* C9: reconciling one package map runs at most one bulk install and at
\* most one bulk downgrade, both after every package has been evaluated, the
\* install before the downgrade.
C9_OneFlushAfterAllEvaluated ==
    /\ Cardinality(Entries({"install"})) <= 1
    /\ Cardinality(Entries({"downgrade"})) <= 1
    /\ \A i \in Entries({"install", "downgrade"}) :
          \A q \in Entries({"rpmq", "yumlist"}) : q < i
    /\ \A i \in Entries({"install"}) :
          \A d \in Entries({"downgrade"}) : i < d

\* C10: within one pass no package identifier is submitted to an install or
\* downgrade command more than once, whether the earlier command succeeded
\* or failed.
C10_NoIdentifierSubmittedTwice ==
    \A i, j \in Entries({"install", "downgrade"}) :
        i # j => Range(log[i].pkgs) \cap Range(log[j].pkgs) = {}

\* the document retrieve() loaded is absent, lacks the init key, or has an
\* empty value under it
InvalidData ==
    \/ ~Truthy(data)
    \/ InitKey \notin DOMAIN data
    \/ ~Truthy(data[InitKey])

\* C11: when the loaded metadata is absent, lacks the init-configuration key
\* or has an empty value under it, cfn_init and cfn_hup both end with the
\* fatal error "invalid metadata" and run no package, file, service or hook
\* command.
C11_InvalidMetadataIsFatal ==
    InvalidData
    => /\ log = << >>
       /\ pc \in {"idle", "raised"}
       /\ calls > 0 => pc = "raised" /\ err = "invalid metadata"

C11_Witness ==
    /\ data = (InitKey :> None)
    /\ calls = 2
    /\ entry = "cfn_hup"
    /\ pc = "raised"

PackageOps == {"makecache", "rpmq", "yumlist", "rpmqf", "install", "downgrade"}
FileOps == {"makedirs", "write", "wget", "chown", "chmod"}
ServiceOps == {"enable", "disable", "status", "start", "stop"}

\* C12: an enforce pass on valid metadata runs its stages in the order
\* packages, files, services: every package command precedes every file
\* operation and every file operation precedes every service command; a
\* monitoring pass runs service health checks only, no package command and
\* no file operation.
C12_StagesInOrder ==
    /\ entry = "cfn_init"
       => /\ \A p \in Entries(PackageOps) :
                \A x \in Entries(FileOps \cup ServiceOps) : p < x
          /\ \A f \in Entries(FileOps) :
                \A s \in Entries(ServiceOps) : f < s
    /\ entry = "cfn_hup"
       => /\ Entries(PackageOps \cup FileOps) = {}
          /\ pc \notin {"packages", "yum", "files", "file", "services",
                        "initialize"}

C12_Witness ==
    /\ entry = "cfn_init"
    /\ pc = "done"
    /\ Entries(PackageOps) # {}
    /\ Entries(FileOps) # {}
    /\ Entries(ServiceOps) # {}

\* section k of the config of the loaded document
Section(k) == DictGet(DictGet(data[InitKey], "config"), k)

\* every service of a known manager that names ensureRunning has had its
\* status queried
ServicesChecked ==
    \A m \in DOMAIN Section("services") \cap _service_handlers :
        \A s \in DOMAIN Section("services")[m] :
            "ensureRunning" \in DOMAIN Section("services")[m][s]
            => \E i \in Entries({"status"}) : log[i].svc = s

\* C13: the failure of one item aborts neither its siblings nor the later
\* stages: a pass on valid metadata is never cut short by a failing package
\* command, file operation or service command, and at its end every package
\* has been evaluated, every file has been handled and every service has
\* been checked.
C13_ItemFailureNeverAborts ==
    (~InvalidData /\ calls = 1)
    => /\ pc # "raised"
       /\ (pc = "done" /\ entry = "cfn_init")
          => /\ \A n \in DOMAIN DictGet(Section("packages"), "yum") :
                   \E i \in Entries({"rpmq"}) : log[i].pkg[1] = n
             /\ \A f \in DOMAIN Section("files") :
                   \E i \in Entries({"makedirs"}) : log[i].dest = f
             /\ ServicesChecked
       /\ (pc = "done" /\ entry = "cfn_hup") => ServicesChecked

\* C14: enforce and monitor passes modify neither the loaded metadata document
\* nor the hook set, so that every call of a sequence of calls on the same
\* loaded document, a repeated monitoring call included, passes validation.
C14_EveryCallPassesValidation ==
    /\ hooks = HupConfig(TwoHooksConfig)
    /\ ~InvalidData => ~(pc = "raised" /\ err = "invalid metadata")

\* the place of a manager in the priority list dpkg, rpm, apt, yum; managers
\* outside the list come after it
PriorityRank(m) ==
    IF \E i \in 1..Len(_package_order) : _package_order[i] = m
    THEN CHOOSE i \in 1..Len(_package_order) : _package_order[i] = m
    ELSE Len(_package_order) + 1

\* C15: the package managers of a packages section are visited in the order
\* dpkg, rpm, apt, yum whatever their order in the document, and managers
\* outside that list after all listed ones.
C15_ManagersInPriorityOrder ==
    pc \in {"packages", "yum"}
    => \A i, j \in 1..Len(mgrTodo) :
          i < j => /\ PriorityRank(mgrTodo[i]) <= PriorityRank(mgrTodo[j])
                   /\ mgrTodo[j] \in Range(_package_order)
                      => PriorityRank(mgrTodo[i]) < PriorityRank(mgrTodo[j])

C15_Witness ==
    /\ pc = "packages"
    /\ calls = 1
    /\ Range(mgrTodo) = {"yum", "dpkg", "python"}

\* the backend kinds of the loaded document that have no handler
UnknownPackageKinds == DOMAIN Section("packages") \ _package_handlers
UnknownServiceKinds == DOMAIN Section("services") \ _service_handlers

\* C16: a package or service backend kind without handler is skipped: no
\* command is run for its entries and no error is raised, and the entries of
\* every known kind of the same section are still processed, in an enforce
\* pass (packages, services) and in a monitoring pass (services) alike.
C16_UnknownKindSkipped ==
    (~InvalidData /\ calls = 1)
    => /\ \A m \in UnknownServiceKinds :
             \A s \in DOMAIN Section("services")[m] :
                 \A i \in Entries(ServiceOps) : log[i].svc # s
       /\ \A m \in UnknownPackageKinds :
             \A n \in DOMAIN Section("packages")[m] :
                 /\ \A i \in Entries({"rpmq", "yumlist", "rpmqf"}) :
                       log[i].pkg[1] # n
                 /\ \A i \in Entries({"install", "downgrade"}) :
                       \A k \in 1..Len(log[i].pkgs) : log[i].pkgs[k][1] # n
       /\ UnknownPackageKinds \cup UnknownServiceKinds # {}
          => /\ pc # "raised"
             /\ pc = "done" => ServicesChecked
             /\ (pc = "done" /\ entry = "cfn_init")
                => \A n \in DOMAIN DictGet(Section("packages"), "yum") :
                      \E i \in Entries({"rpmq"}) : log[i].pkg[1] = n

C16_Witness ==
    /\ pc = "done"
    /\ calls = 1
    /\ entry = "cfn_init"
    /\ UnknownPackageKinds # {}
    /\ UnknownServiceKinds # {}
    /\ Entries({"rpmq"}) # {}
    /\ Entries({"status"}) # {}

\* the entries the step appends to the log
NewEntries(ops) ==
    {k \in (Len(log) + 1)..Len(log') : log'[k].op \in ops}

\* the installed query of the step answered that the package is not installed
FoundNotInstalled(p) ==
    \E k \in NewEntries({"rpmq"}) :
        log'[k].pkg = PkgId(p, DesiredVersion(p)) /\ log'[k].status # 0

\* the availability query of the step failed
FoundUnavailable(p) ==
    \E k \in NewEntries({"yumlist"}) :
        log'[k].pkg = PkgId(p, DesiredVersion(p)) /\ log'[k].status # 0

Count(seq, x) == Cardinality({k \in 1..Len(seq) : seq[k] = x})

\* C17: a package that is not installed and whose availability query fails
\* is skipped: it enters neither the install nor the downgrade batch, no
\* version query is made for it and the remaining packages are still
\* evaluated; a package that is not installed, has no version constraint and
\* is available is queued for install exactly once.
C17_UnavailableSkippedAvailableQueuedOnce ==
    [][\A p \in PkgNames :
          (Evaluates(p) /\ FoundNotInstalled(p))
          => /\ FoundUnavailable(p)
                => /\ installs' = installs
                   /\ downgrades' = downgrades
                   /\ \A k \in NewEntries({"install", "downgrade"}) :
                         PkgId(p, DesiredVersion(p)) \notin Range(log'[k].pkgs)
                   /\ NewEntries({"rpmqf"}) = {}
                   /\ err' = err
                   /\ pc' = IF itemTodo' = {} THEN "packages" ELSE "yum"
             /\ (FoundAvailable(p) /\ DesiredVersion(p) = NoVersion)
                => /\ installs' = Append(installs, <<p>>)
                   /\ Count(installs', <<p>>) = 1
                   /\ downgrades' = downgrades]_vars

C17_Witness ==
    /\ pc = "packages"
    /\ \E i \in Entries({"yumlist"}) :
          /\ log[i].status # 0
          /\ \E j \in Entries({"yumlist"}) :
                j > i /\ log[j].status = 0 /\ Len(log[j].pkg) = 1
    /\ Len(installs) = 1

\* C18: compare_rpm_versions returns -1, 0 or 1; a version compares equal to
\* itself; swapping the arguments negates the result; an absent version is
\* lower than every present one and two absent versions are equal.
C18_CompareIsAntisymmetric ==
    \A i \in Entries({"compare_rpm_versions"}) :
        /\ log[i].rc \in {0 - 1, 0, 1}
        /\ log[i].v1 = log[i].v2 => log[i].rc = 0
        /\ (log[i].v1 = NoVersion /\ log[i].v2 # NoVersion)
           => log[i].rc = 0 - 1
        /\ (log[i].v1 = NoVersion /\ log[i].v2 = NoVersion) => log[i].rc = 0
        /\ \A j \in Entries({"compare_rpm_versions"}) :
              (log[j].v1 = log[i].v2 /\ log[j].v2 = log[i].v1)
              => log[j].rc = 0 - log[i].rc

C18_Witness ==
    \E i, j \in Entries({"compare_rpm_versions"}) :
        /\ log[i].v1 = NoVersion
        /\ log[i].v2 = "2.2.10"
        /\ log[j].v1 = "2.2.10"
        /\ log[j].v2 = NoVersion
        /\ log[j].rc = 1

\* C19: newest_rpm_version returns null for an empty or absent argument, a
\* string argument unchanged, and for a non-empty list an element that no
\* other element exceeds, the first such in the list when several compare
\* equal.
C19_NewestIsFirstMaximal ==
    \A i \in Entries({"newest_rpm_version"}) :
        LET a == log[i].versions
            r == log[i].result
        IN /\ (a.kind = "null" \/ (a.kind = "str" /\ a.str = "")
               \/ (a.kind = "list" /\ a.list = << >>))
              => r = NoVersion
           /\ (a.kind = "str" /\ a.str # "") => r = a.str
           /\ (a.kind = "list" /\ a.list # << >>)
              => \E k \in 1..Len(a.list) :
                    /\ a.list[k] = r
                    /\ \A j \in 1..Len(a.list) :
                          compareVerOnly(a.list[j], r) <= 0
                    /\ \A j \in 1..(k - 1) :
                          compareVerOnly(a.list[j], r) < 0

C19_Witness ==
    \E i \in Entries({"newest_rpm_version"}) :
        /\ log[i].versions = VList(<<"2.2.020", "2.2.20">>)
        /\ log[i].result = "2.2.020"

\* the two triggers service.restarted and config.changed, in either order
TwoTriggers ==
    {EvRestarted \o <<",">> \o EvChanged, EvChanged \o <<",">> \o EvRestarted}

\* C20: loading a hook section splits its triggers value on commas into a
\* trigger set: a hook loaded from triggers=service.restarted,config.changed
\* answers to exactly the events service.restarted and config.changed, and
\* the order in which the two are written does not change which events match
\* the hook.
C20_TriggersLoadedAsSet ==
    \A i \in Entries({"event"}) :
        LET h == hooks[log[i].who]
        IN /\ (h.triggers \in TwoTriggers /\ Fired(i))
              => log[i].name \in {EvRestarted, EvChanged}
           /\ \A j \in Entries({"event"}) :
                 (/\ log[j].name = log[i].name
                  /\ log[j].res = log[i].res
                  /\ h.triggers \in TwoTriggers
                  /\ hooks[log[j].who].triggers \in TwoTriggers
                  /\ resource_name_get(hooks[log[j].who])
                        = resource_name_get(h))
                 => (Fired(i) <=> Fired(j))

ServiceProps(s) ==
    LET m == CHOOSE k \in DOMAIN Section("services") :
                 s \in DOMAIN Section("services")[k]
    IN Section("services")[m][s]

\* C22: a monitoring pass issues only status and start commands: never stop,
\* enable or disable, whatever the spec and the observed state (a running
\* service with ensureRunning false is left running, a start follows only a
\* status query that found a service that should run not running), and no
\* command at all for a service whose spec has no ensureRunning key.
C22_MonitorOnlyStatusAndStart ==
    (~InvalidData /\ entry = "cfn_hup" /\ calls = 1)
    => /\ \A i \in Entries(ServiceOps) :
             /\ log[i].op \in {"status", "start"}
             /\ "ensureRunning" \in DOMAIN ServiceProps(log[i].svc)
             /\ log[i].op = "start"
                => /\ to_boolean(ServiceProps(log[i].svc)["ensureRunning"])
                   /\ log[i - 1].op = "status"
                   /\ log[i - 1].svc = log[i].svc
                   /\ log[i - 1].status # 0
       /\ \A i \in Entries({"status"}) :
             /\ Cardinality({j \in Entries({"status"}) :
                                log[j].svc = log[i].svc}) = 1
             /\ (log[i].status = 0 /\ i < Len(log))
                => ~(log[i + 1].op \in ServiceOps
                     /\ log[i + 1].svc = log[i].svc)

C22_Witness ==
    /\ entry = "cfn_hup"
    /\ calls = 1
    /\ pc = "done"
    /\ \E i \in Entries({"status"}) :
          /\ log[i].status = 0
          /\ WantsStopped(ServiceProps(log[i].svc)["ensureRunning"])
    /\ \E m \in DOMAIN Section("services") \cap _service_handlers :
          \E s \in DOMAIN Section("services")[m] :
              "ensureRunning" \notin DOMAIN Section("services")[m][s]

====
